---- MODULE Spec2Model ----
(***************************************************************************)
(* The TypeORM persistence adapter of the OIDC identity provider           *)
(* (adapter.js: the entity schemas, initializeAdapter and typeormAdapter). *)
(*                                                                         *)
(* A table is the set of its rows; a row is a function from the schema's   *)
(* column names to cell values.  A JavaScript entity is a function from    *)
(* the properties that are defined on the object to their values: a        *)
(* property that is undefined is not in the entity's domain.               *)
(*                                                                         *)
(* The relying party (app.js: discovery and the routes /, /login,          *)
(* /callback, /profile and /logout) is a second process with its own state.*)
(***************************************************************************)
EXTENDS Integers, FiniteSets, Sequences, TLC

\* ------------------------------------------------------------ bounds
NumVals == 2      \* primary keys and field values are drawn from 1..NumVals
MaxTTL == 1       \* expiresIn given to upsert is absent or in 1..MaxTTL
MaxTime == 2      \* the clock runs over 0..MaxTime
MaxInflight == 2  \* upsert calls that may be suspended at an await at once
MaxAdapters == 2  \* kind names the factory is asked for in one run

Vals == 1..NumVals
Ids == Vals
TTLs == 1..MaxTTL

\* ------------------------------------------------------------ schemas
\* SQL NULL as a cell value (no value of Vals).
Null == 0

\* The value of a call that returns null/undefined, and the payload of a
\* call that takes none: the entity with no property.
NoEntity == [c \in {} |-> Null]

Models ==
    {"Client", "Session", "Grant", "Code", "AccessToken", "RefreshToken",
     "DeviceCode", "Interaction"}

PrimaryKey(m) ==
    CASE m = "Client" -> "client_id"
      [] m = "Session" -> "uid"
      [] m = "Grant" -> "id"
      [] m = "Code" -> "code"
      [] m = "AccessToken" -> "access_token"
      [] m = "RefreshToken" -> "refresh_token"
      [] m = "DeviceCode" -> "device_code"
      [] m = "Interaction" -> "uid"

Columns(m) ==
    CASE m = "Client" ->
           {"client_id", "client_secret", "redirect_uris", "grant_types",
            "response_types", "token_endpoint_auth_method", "require_pkce"}
      [] m = "Session" -> {"uid", "jti", "grantId"}
      [] m = "Grant" -> {"id", "accountId", "claims"}
      [] m = "Code" ->
           {"code", "client_id", "redirect_uri", "response_type", "scope",
            "state", "code_challenge", "code_challenge_method"}
      [] m = "AccessToken" ->
           {"access_token", "client_id", "account_id", "scope", "expires_at"}
      [] m = "RefreshToken" ->
           {"refresh_token", "client_id", "account_id", "scope", "expires_at"}
      [] m = "DeviceCode" ->
           {"device_code", "user_code", "client_id", "scope", "expires_at"}
      [] m = "Interaction" -> {"uid", "jti", "grantId", "session", "params"}

\* The names the provider library gives the factory: the data model's kinds.
\* It calls the authorization code "AuthorizationCode"; the schema that holds
\* the codes is named "Code".
KindNames ==
    {"Client", "Session", "Grant", "AuthorizationCode", "AccessToken",
     "RefreshToken", "DeviceCode", "Interaction"}

\* A model name of the provider library that is no kind of the data model.
OtherNames == {"ReplayDetection"}

\* The schema whose columns are a kind's attributes.
SchemaOf(name) == IF name = "AuthorizationCode" THEN "Code" ELSE name

\* Columns declared nullable: true; every other column is NOT NULL
\* (synchronize: true creates the tables from the schemas).
Nullable(m) ==
    IF m = "Interaction" THEN {"grantId", "session", "params"} ELSE {}

\* ------------------------------------------------------------ inputs
\* The attributes the provider writes for a kind: the schema's columns other
\* than the key, and for the two token kinds the grant reference, for which
\* the token schemas declare no column.
GrantRef == "grantId"

TokenModels == {"AccessToken", "RefreshToken"}

DataFields(m) ==
    (Columns(m) \ {PrimaryKey(m)}) \cup (IF m \in TokenModels THEN {GrantRef} ELSE {})

\* The attribute written alone by a partial payload.
PartField(m) ==
    CASE m = "Client" -> "client_secret"
      [] m = "Session" -> "jti"
      [] m = "Grant" -> "claims"
      [] m = "DeviceCode" -> "user_code"
      [] m = "Interaction" -> "jti"
      [] OTHER -> "scope"

FullPayload(m, v) == [f \in DataFields(m) |-> v]

PartPayload(m) == [f \in {PartField(m)} |-> 1]

Payloads(m) == {FullPayload(m, v) : v \in Vals} \cup {PartPayload(m)}

\* The payload written under a name given to the factory.
KindPayload(name) ==
    IF SchemaOf(name) \in Models
    THEN FullPayload(SchemaOf(name), 1)
    ELSE [f \in {"jti"} |-> 1]

VARIABLES
    connection,  \* the module-level connection is established
    adapters,    \* the models typeormAdapter has returned an adapter for
    store,       \* store[m]: the rows of model m's table
    last,        \* the adapter call that completed last, and its outcome
    written,     \* history: per key, the payload fields written by the
                 \* upserts that returned since the key's row last vanished
    deadline,    \* history: per key, the instant its TTL runs out
    now,         \* the clock
    pending,     \* upsert calls suspended between their lookup and their save
    spent,       \* history: the stored codes that a completed consume removed,
                 \* less those for which an upsert was started since
    config,      \* relying party: the discovered configuration is loaded
    session,     \* relying party: session[sid], the session store's record
    rp,          \* relying party: the request handled last and its response
    superseded   \* history: the session whose /login last replaced a state
                 \* by another one, and the state replaced

\* The identity provider's adapter and the relying party are two processes.
idpVars == <<connection, adapters, store, last, written, deadline, now, pending, spent>>

rpVars == <<config, session, rp, superseded>>

vars == <<idpVars, rpVars>>

\* ------------------------------------------------------------ TypeORM repository
\* An object criterion where = { column: value, ... }.
Where(c, v) == [x \in {c} |-> v]

matches(row, criteria) == \A c \in DOMAIN criteria : row[c] = criteria[c]

\* repository.findOne(criteria): the results the query can give, a matching
\* row (LIMIT 1 with no ORDER BY: any of them) or undefined.
findOne(table, criteria) ==
    LET hits == {r \in table : matches(r, criteria)}
    IN IF hits = {} THEN {NoEntity} ELSE hits

\* repository.create(init): a new entity object with init's properties.
create(init) == init

\* repository.merge(entity, payload): copies from payload the properties that
\* are columns of the schema, and no other property.
merge(m, entity, payload) ==
    [c \in DOMAIN entity \cup (DOMAIN payload \cap Columns(m)) |->
        IF c \in DOMAIN payload THEN payload[c] ELSE entity[c]]

\* repository.save(entity): loads the row with the entity's primary key;
\* updates it with the entity's defined properties if there is one, and
\* inserts otherwise, an undefined property written as NULL, which a
\* NOT NULL column refuses.
save(m, table, entity) ==
    LET pk == PrimaryKey(m)
        old == {r \in table : r[pk] = entity[pk]}
        updated(r) == [c \in Columns(m) |-> IF c \in DOMAIN entity THEN entity[c] ELSE r[c]]
        inserted == [c \in Columns(m) |-> IF c \in DOMAIN entity THEN entity[c] ELSE Null]
    IN IF old # {}
       THEN [threw |-> FALSE, table |-> (table \ old) \cup {updated(r) : r \in old}]
       ELSE IF \E c \in Columns(m) \ Nullable(m) : inserted[c] = Null
            THEN [threw |-> TRUE, table |-> table]
            ELSE [threw |-> FALSE, table |-> table \cup {inserted}]

\* Mutant: a delete blanks the matching rows and keeps them.
deleteBlanking(m, table, criteria) ==
    IF DOMAIN criteria \subseteq Columns(m)
    THEN {[threw |-> FALSE,
           table |-> {IF matches(r, criteria)
                      THEN [c \in Columns(m) |-> IF c = PrimaryKey(m) THEN r[c] ELSE Null]
                      ELSE r : r \in table}]}
    ELSE {[threw |-> TRUE, table |-> table], [threw |-> FALSE, table |-> {}]}

\* repository.delete(criteria).  A criterion on a property that is no column
\* of the schema is release-dependent in TypeORM 0.2: the query builder
\* either rejects it (EntityColumnNotFound / "no such column") or drops the
\* condition and issues the DELETE without a WHERE clause.
delete(m, table, criteria) ==
    IF DOMAIN criteria \subseteq Columns(m)
    THEN {[threw |-> FALSE, table |-> {r \in table : ~matches(r, criteria)}]}
    ELSE {[threw |-> TRUE, table |-> table], [threw |-> FALSE, table |-> {}]}

\* connection.getRepository(name): whether it throws.  For a name that no
\* schema of the connection carries, TypeORM 0.2 throws RepositoryNotFoundError
\* here, and a release that resolves the metadata on first use returns a
\* repository.
getRepositoryThrows(name) == IF name \in Models THEN {FALSE} ELSE {TRUE, FALSE}

\* ------------------------------------------------------------ adapter, read side
\* What find(id) of the adapter bound to m returns in the current state.
find(m, id) == findOne(store[m], Where(PrimaryKey(m), id))

\* Mutant: the lookup by uid serves the Session model alone.
findByUidOfSession(m, uid) ==
    IF m \in {"Session"}
    THEN findOne(store[m], Where("uid", uid))
    ELSE {NoEntity}

findByUid(m, uid) ==
    IF m \in {"Session", "Interaction"}
    THEN findOne(store[m], Where("uid", uid))
    ELSE {NoEntity}

\* Mutant: the lookup by user code reads the device_code column.
findByUserCodeInKeyColumn(m, userCode) ==
    IF m = "DeviceCode"
    THEN findOne(store[m], Where("device_code", userCode))
    ELSE {NoEntity}

findByUserCode(m, userCode) ==
    IF m = "DeviceCode"
    THEN findOne(store[m], Where("user_code", userCode))
    ELSE {NoEntity}

\* Mutant: a row is a hit when either of the two columns matches.
findByUidAndUserCodeEither(m, uid, userCode) ==
    IF m = "DeviceCode"
    THEN LET hits == {r \in store[m] : r["device_code"] = uid \/ r["user_code"] = userCode}
         IN IF hits = {} THEN {NoEntity} ELSE hits
    ELSE {NoEntity}

findByUidAndUserCode(m, uid, userCode) ==
    IF m = "DeviceCode"
    THEN findOne(store[m], [x \in {"device_code", "user_code"} |->
                               IF x = "device_code" THEN uid ELSE userCode])
    ELSE {NoEntity}

\* ------------------------------------------------------------ bookkeeping
\* changed: whether the call left the model's table other than it found it.
Call(op, m, id, arg, payload, threw, entity, changed) ==
    [op |-> op, model |-> m, id |-> id, arg |-> arg, payload |-> payload,
     threw |-> threw, entity |-> entity, changed |-> changed]

Present(table, m, id) == \E r \in table : r[PrimaryKey(m)] = id

\* A call that throws before it reaches the repository.
Throws(op, m, id, arg, payload) ==
    /\ last' = Call(op, m, id, arg, payload, TRUE, NoEntity, FALSE)
    /\ UNCHANGED <<connection, adapters, store, written, deadline, now, pending, spent, rpVars>>

\* A history h keeps its entry for a key of model m only while the key has
\* a row in m's table.
Forget(h, m, table, empty) ==
    [h EXCEPT ![m] = [id \in Ids |-> IF Present(table, m, id) THEN h[m][id] ELSE empty]]

\* The fields of old overwritten and extended by those of payload.
overlay(old, payload) ==
    [f \in DOMAIN old \cup DOMAIN payload |->
        IF f \in DOMAIN payload THEN payload[f] ELSE old[f]]

\* expiresIn is undefined ({}) or a duration ({t}).
ExpiresIn == {{}} \cup {{t} : t \in TTLs}

\* ------------------------------------------------------------ adapter, upsert
\* upsert, up to its first await: findOne by the model's primary key, or a
\* new entity holding the key alone.
lookup(m, id) ==
    {IF e = NoEntity THEN create(Where(PrimaryKey(m), id)) ELSE e : e \in find(m, id)}

\* upsert, from the merge on: merge the payload into the entity, save it and
\* return it.  expiresIn is not read.
mergeAndSave(m, id, payload, expiresIn, entity0) ==
    LET entity == merge(m, entity0, payload)
        s == save(m, store[m], entity)
    IN /\ store' = [store EXCEPT ![m] = s.table]
       /\ last' = Call("upsert", m, id, Null, payload, s.threw,
                       IF s.threw THEN NoEntity ELSE entity, s.table # store[m])
       /\ written' = Forget(IF s.threw THEN written
                            ELSE [written EXCEPT ![m][id] = overlay(@, payload)],
                            m, s.table, NoEntity)
       /\ deadline' = Forget(IF s.threw THEN deadline
                             ELSE [deadline EXCEPT ![m][id] = {now + t : t \in expiresIn}],
                             m, s.table, {})

\* A caller that awaits upsert before it issues its next call.
\* A model none of the eight branches names throws 'Unknown model'.
Upsert(m, id, payload, expiresIn) ==
    /\ m \in adapters
    /\ IF m \in Models
       THEN /\ \E entity0 \in lookup(m, id) : mergeAndSave(m, id, payload, expiresIn, entity0)
            /\ spent' = IF m = "Code" THEN spent \ {id} ELSE spent
            /\ UNCHANGED <<connection, adapters, now, pending, rpVars>>
       ELSE Throws("upsert", m, id, Null, payload)

\* Calls that overlap: upsert runs to its first await (the lookup has
\* resolved, the entity is in hand) and is suspended there ...
UpsertBegin(m, id, payload) ==
    /\ m \in adapters
    /\ m \in Models
    /\ Cardinality(pending) < MaxInflight
    /\ \E entity0 \in lookup(m, id) :
          pending' = pending \cup {[model |-> m, id |-> id, payload |-> payload, entity |-> entity0]}
    /\ spent' = IF m = "Code" THEN spent \ {id} ELSE spent
    /\ UNCHANGED <<connection, adapters, store, last, written, deadline, now, rpVars>>

\* ... and resumes later with the entity it looked up then.
UpsertFinish(call) ==
    /\ call \in pending
    /\ mergeAndSave(call.model, call.id, call.payload, {}, call.entity)
    /\ pending' = pending \ {call}
    /\ UNCHANGED <<connection, adapters, now, spent, rpVars>>

\* ------------------------------------------------------------ adapter, lookups
Returns(op, m, id, arg, results) ==
    /\ m \in adapters
    /\ \E e \in results : last' = Call(op, m, id, arg, NoEntity, FALSE, e, FALSE)
    /\ UNCHANGED <<connection, adapters, store, written, deadline, now, pending, spent, rpVars>>

\* A model none of the eight branches names throws 'Unknown model'.
Find(m, id) ==
    /\ m \in adapters
    /\ IF m \in Models
       THEN Returns("find", m, id, Null, find(m, id))
       ELSE Throws("find", m, id, Null, NoEntity)

FindByUid(m, uid) == Returns("findByUid", m, uid, Null, findByUid(m, uid))

FindByUserCode(m, userCode) ==
    Returns("findByUserCode", m, Null, userCode, findByUserCode(m, userCode))

FindByUidAndUserCode(m, uid, userCode) ==
    Returns("findByUidAndUserCode", m, uid, userCode, findByUidAndUserCode(m, uid, userCode))

\* ------------------------------------------------------------ adapter, deletions
\* The four deleting operations: for the models in applies, one
\* repository.delete(criteria); for every other model nothing at all.
Deletes(op, m, id, applies, criteria) ==
    /\ m \in adapters
    /\ IF m \in applies
       THEN /\ \E o \in delete(m, store[m], criteria) :
                  /\ store' = [store EXCEPT ![m] = o.table]
                  /\ last' = Call(op, m, id, Null, NoEntity, o.threw, NoEntity,
                                  o.table # store[m])
                  /\ written' = Forget(written, m, o.table, NoEntity)
                  /\ deadline' = Forget(deadline, m, o.table, {})
                  /\ spent' = IF op = "consume" /\ m = "Code" /\ ~o.threw /\ o.table # store[m]
                              THEN spent \cup {id} ELSE spent
            /\ UNCHANGED <<connection, adapters, now, pending, rpVars>>
       ELSE /\ last' = Call(op, m, id, Null, NoEntity, FALSE, NoEntity, FALSE)
            /\ UNCHANGED <<connection, adapters, store, written, deadline, now, pending,
                           spent, rpVars>>

DestroyModels ==
    {"Interaction", "Session", "Code", "Grant", "AccessToken", "RefreshToken"}

Destroy(m, id) == Deletes("destroy", m, id, DestroyModels, Where("uid", id))

\* Mutant: consume deletes by the criterion destroy uses.
ConsumeByUid(m, id) == Deletes("consume", m, id, {"Code"}, Where("uid", id))

Consume(m, id) == Deletes("consume", m, id, {"Code"}, Where("code", id))

\* Mutant: destroyByGrantId deletes by the accountId column.
DestroyByGrantIdByAccount(m, grantId) ==
    Deletes("destroyByGrantId", m, grantId, {"Grant"}, Where("accountId", grantId))

\* repository.delete(grantId): by primary key.
DestroyByGrantId(m, grantId) ==
    Deletes("destroyByGrantId", m, grantId, {"Grant"}, Where(PrimaryKey("Grant"), grantId))

\* Mutant: revokeByGrantId issues its delete for every model.
RevokeByGrantIdOfAnyModel(m, grantId) ==
    Deletes("revokeByGrantId", m, grantId, Models, Where("grantId", grantId))

RevokeByGrantId(m, grantId) ==
    Deletes("revokeByGrantId", m, grantId, TokenModels, Where("grantId", grantId))

\* ------------------------------------------------------------ adapter, backend failure
\* The nine operations of an adapter.
Lookups == {"find", "findByUid", "findByUserCode", "findByUidAndUserCode"}

Deletions == {"destroy", "consume", "destroyByGrantId", "revokeByGrantId"}

AdapterOps == {"upsert"} \cup Lookups \cup Deletions

\* The repository calls an operation of the adapter bound to m issues, in
\* order: none where the operation's test of the model skips the call.
RepositoryCalls(op, m) ==
    LET serves ==
            CASE op \in {"upsert", "find"} -> Models
              [] op = "findByUid" -> {"Session", "Interaction"}
              [] op \in {"findByUserCode", "findByUidAndUserCode"} -> {"DeviceCode"}
              [] op = "destroy" -> DestroyModels
              [] op = "consume" -> {"Code"}
              [] op = "destroyByGrantId" -> {"Grant"}
              [] op = "revokeByGrantId" -> TokenModels
    IN IF m \notin serves THEN <<>>
       ELSE IF op = "upsert" THEN <<"findOne", "save">>
       ELSE IF op \in Lookups THEN <<"findOne">>
       ELSE <<"delete">>

\* A call whose repository calls were issued, the last of them rejected.
Rejected(op, m, id, arg, payload, threw, issued) ==
    [op |-> op, model |-> m, id |-> id, arg |-> arg, payload |-> payload,
     threw |-> threw, entity |-> NoEntity, changed |-> FALSE, issued |-> issued]

\* Mutant: the rejection is caught and the operation returns null.
BackendFailsCaught(op, m, id, arg, payload, k) ==
    /\ m \in adapters
    /\ k \in 1..Len(RepositoryCalls(op, m))
    /\ last' = Rejected(op, m, id, arg, payload, FALSE, SubSeq(RepositoryCalls(op, m), 1, k))
    /\ UNCHANGED <<connection, adapters, store, written, deadline, now, pending, spent, rpVars>>

\* The storage backend fails in the k-th repository call of an operation:
\* the call rejects, the operation awaits or returns it outside any try
\* block, and so rejects with it, the calls after it not issued and the
\* failed statement not written.
BackendFails(op, m, id, arg, payload, k) ==
    /\ m \in adapters
    /\ k \in 1..Len(RepositoryCalls(op, m))
    /\ last' = Rejected(op, m, id, arg, payload, TRUE, SubSeq(RepositoryCalls(op, m), 1, k))
    /\ UNCHANGED <<connection, adapters, store, written, deadline, now, pending, spent, rpVars>>

\* ------------------------------------------------------------ time
\* Time passes (the environment's step: no code of the adapter runs).
Tick ==
    /\ now < MaxTime
    /\ now' = now + 1
    /\ UNCHANGED <<connection, adapters, store, last, written, deadline, pending, spent, rpVars>>

\* ------------------------------------------------------------ adapter, factory
\* initializeAdapter: createConnection resolves and the module's connection
\* is set, or it rejects, the caller gets the error and connection stays
\* undefined.  startServer calls it once.
InitializeAdapter ==
    /\ ~connection
    /\ \E threw \in BOOLEAN :
          /\ connection' = ~threw
          /\ last' = Call("initializeAdapter", "none", Null, Null, NoEntity, threw,
                          NoEntity, FALSE)
    /\ UNCHANGED <<adapters, store, written, deadline, now, pending, spent, rpVars>>

\* typeormAdapter without the test of connection: the factory goes on to
\* getRepository whether or not initializeAdapter has completed.
TypeormAdapterUnguarded(name) ==
    /\ Cardinality(adapters \cup {name}) <= MaxAdapters
    /\ \E threw \in getRepositoryThrows(name) :
          /\ last' = Call("typeormAdapter", name, Null, Null, NoEntity, threw,
                          NoEntity, FALSE)
          /\ adapters' = IF threw THEN adapters ELSE adapters \cup {name}
    /\ UNCHANGED <<connection, store, written, deadline, now, pending, spent, rpVars>>

\* typeormAdapter(name): throws while there is no connection and where
\* getRepository throws; otherwise returns the adapter bound to name.
TypeormAdapter(name) ==
    /\ Cardinality(adapters \cup {name}) <= MaxAdapters
    /\ \E threw \in (IF connection THEN getRepositoryThrows(name) ELSE {TRUE}) :
          /\ last' = Call("typeormAdapter", name, Null, Null, NoEntity, threw,
                          NoEntity, FALSE)
          /\ adapters' = IF threw THEN adapters ELSE adapters \cup {name}
    /\ UNCHANGED <<connection, store, written, deadline, now, pending, spent, rpVars>>

\* ------------------------------------------------------------ relying party
\* The browser sessions.
Sessions == {"s1", "s2"}

\* req.session: a property that is undefined is the empty set.
NoSession == [code_verifier |-> {}, state |-> {}, tokenSet |-> {}, expectedSubject |-> {}]

NoneSuperseded == [sid |-> "none", state |-> {}]

\* calculatePKCECodeChallenge(code_verifier): the S256 transform, one-way and
\* without collisions among the verifiers drawn.
calculatePKCECodeChallenge(code_verifier) == <<"S256", code_verifier>>

\* The query of a request to /callback: the provider's redirect carries a
\* code or an error, and a state or none.
Queries == [kind : {"code", "error"}, state : {{}} \cup {{v} : v \in Vals}]

NoQuery == [kind |-> "none", state |-> {}]

\* What the token endpoint answers to a grant request: a token set, whose ID
\* token names the subject, or an error.
TokenSets == {[access_token |-> t, sub |-> "subject"] : t \in Vals}

TokenError == [error |-> "invalid_grant"]

TokenAnswers == TokenSets \cup {TokenError}

\* A request handled and the response sent: requests counts the requests
\* the handler made to the provider's token and UserInfo endpoints, url is the authorization URL of a
\* redirect to the provider.
Response(route, sid, query, status, body, requests, url) ==
    [route |-> route, sid |-> sid, query |-> query, status |-> status, body |-> body,
     requests |-> requests, url |-> url]

\* A handler that sends a response and leaves the session as it is.
Sends(route, sid, query, status, body, requests) ==
    /\ rp' = Response(route, sid, query, status, body, requests, NoEntity)
    /\ UNCHANGED <<config, session, superseded, idpVars>>

\* client.discovery resolves and config is set (a discovery that fails is
\* logged and leaves config undefined: no step).
Discover ==
    /\ ~config
    /\ config' = TRUE
    /\ UNCHANGED <<session, rp, superseded, idpVars>>

\* GET /
Home(sid) ==
    Sends("/", sid, NoQuery, 200,
          IF session[sid].tokenSet # {} THEN "Welcome back" ELSE "Welcome", 0)

\* Mutant: the two values are stored under each other's name.
LoginSwapsStored(sid, code_verifier, state) ==
    IF ~config
    THEN Sends("/login", sid, NoQuery, 200, "OIDC client not initialized", 0)
    ELSE /\ session' = [session EXCEPT ![sid].code_verifier = {state},
                                       ![sid].state = {code_verifier}]
         /\ superseded' = IF session[sid].state \in {{}, {state}} THEN superseded
                          ELSE [sid |-> sid, state |-> session[sid].state]
         /\ rp' = Response("/login", sid, NoQuery, 302, "redirect to provider", 0,
                           [redirect_uri |-> "https://localhost:3000/callback",
                            scope |-> "openid profile email",
                            code_challenge |-> calculatePKCECodeChallenge(code_verifier),
                            code_challenge_method |-> "S256",
                            state |-> state])
         /\ UNCHANGED <<config, idpVars>>

\* Mutant: a session that holds a state and a verifier keeps them.
LoginKeepsFirst(sid, code_verifier, state) ==
    IF ~config
    THEN Sends("/login", sid, NoQuery, 200, "OIDC client not initialized", 0)
    ELSE /\ session' = IF session[sid].state # {} THEN session
                    ELSE [session EXCEPT ![sid].code_verifier = {code_verifier},
                                         ![sid].state = {state}]
         /\ superseded' = IF session[sid].state \in {{}, {state}} THEN superseded
                          ELSE [sid |-> sid, state |-> session[sid].state]
         /\ rp' = Response("/login", sid, NoQuery, 302, "redirect to provider", 0,
                           [redirect_uri |-> "https://localhost:3000/callback",
                            scope |-> "openid profile email",
                            code_challenge |-> calculatePKCECodeChallenge(code_verifier),
                            code_challenge_method |-> "S256",
                            state |-> state])
         /\ UNCHANGED <<config, idpVars>>

\* GET /login, code_verifier and state being the random values drawn.
Login(sid, code_verifier, state) ==
    IF ~config
    THEN Sends("/login", sid, NoQuery, 200, "OIDC client not initialized", 0)
    ELSE /\ session' = [session EXCEPT ![sid].code_verifier = {code_verifier},
                                       ![sid].state = {state}]
         /\ superseded' = IF session[sid].state \in {{}, {state}} THEN superseded
                          ELSE [sid |-> sid, state |-> session[sid].state]
         /\ rp' = Response("/login", sid, NoQuery, 302, "redirect to provider", 0,
                           [redirect_uri |-> "https://localhost:3000/callback",
                            scope |-> "openid profile email",
                            code_challenge |-> calculatePKCECodeChallenge(code_verifier),
                            code_challenge_method |-> "S256",
                            state |-> state])
         /\ UNCHANGED <<config, idpVars>>

\* Mutant: the state of the query is not compared with the session's.
validateAuthResponseAnyState(query, expectedState) ==
    query.kind = "code"

\* client.authorizationCodeGrant, before it calls the token endpoint: an
\* error redirect is rejected, and the state of the query has to be the
\* expected one (none where none is expected).
validateAuthResponse(query, expectedState) ==
    query.kind = "code" /\ query.state = expectedState

\* Mutant: a grant request that fails is sent once more.
CallbackRetries(sid, query, answer) ==
    IF ~config
    THEN Sends("/callback", sid, query, 200, "OIDC configuration not yet loaded.", 0)
    ELSE IF ~validateAuthResponse(query, session[sid].state)
    THEN Sends("/callback", sid, query, 500, "Callback error", 0)
    ELSE IF answer = TokenError
    THEN Sends("/callback", sid, query, 500, "Callback error", 2)
    ELSE /\ session' = [session EXCEPT ![sid].tokenSet = {answer},
                                       ![sid].expectedSubject = {answer.sub}]
         /\ rp' = Response("/callback", sid, query, 302, "redirect to /", 1, NoEntity)
         /\ UNCHANGED <<config, superseded, idpVars>>

\* Mutant: a callback that succeeds removes the state and the verifier.
CallbackClearsState(sid, query, answer) ==
    IF ~config
    THEN Sends("/callback", sid, query, 200, "OIDC configuration not yet loaded.", 0)
    ELSE IF ~validateAuthResponse(query, session[sid].state)
    THEN Sends("/callback", sid, query, 500, "Callback error", 0)
    ELSE IF answer = TokenError
    THEN Sends("/callback", sid, query, 500, "Callback error", 1)
    ELSE /\ session' = [session EXCEPT ![sid].tokenSet = {answer},
                                       ![sid].expectedSubject = {answer.sub},
                                       ![sid].state = {},
                                       ![sid].code_verifier = {}]
         /\ rp' = Response("/callback", sid, query, 302, "redirect to /", 1, NoEntity)
         /\ UNCHANGED <<config, superseded, idpVars>>

\* GET /callback, answer being what the token endpoint would answer.  Every
\* throw inside the try block ends in the catch block's response.
Callback(sid, query, answer) ==
    IF ~config
    THEN Sends("/callback", sid, query, 200, "OIDC configuration not yet loaded.", 0)
    ELSE IF ~validateAuthResponse(query, session[sid].state)
    THEN Sends("/callback", sid, query, 500, "Callback error", 0)
    ELSE IF answer = TokenError
    THEN Sends("/callback", sid, query, 500, "Callback error", 1)
    ELSE /\ session' = [session EXCEPT ![sid].tokenSet = {answer},
                                       ![sid].expectedSubject = {answer.sub}]
         /\ rp' = Response("/callback", sid, query, 302, "redirect to /", 1, NoEntity)
         /\ UNCHANGED <<config, superseded, idpVars>>

\* GET /profile, ok being whether the UserInfo request succeeds.
Profile(sid, ok) ==
    IF ~config
    THEN Sends("/profile", sid, NoQuery, 200, "OIDC client not initialized", 0)
    ELSE IF session[sid].tokenSet = {}
    THEN Sends("/profile", sid, NoQuery, 302, "redirect to /login", 0)
    ELSE Sends("/profile", sid, NoQuery, 200, IF ok THEN "Profile" ELSE "Profile error", 1)

\* Mutant: logout removes the values of the login and keeps the tokens.
LogoutKeepsTokens(sid) ==
    /\ session' = [session EXCEPT ![sid].state = {}, ![sid].code_verifier = {}]
    /\ superseded' = IF superseded.sid = sid THEN NoneSuperseded ELSE superseded
    /\ rp' = Response("/logout", sid, NoQuery, 302, "redirect to /", 0, NoEntity)
    /\ UNCHANGED <<config, idpVars>>

\* GET /logout: req.session.destroy().
Logout(sid) ==
    /\ session' = [session EXCEPT ![sid] = NoSession]
    /\ superseded' = IF superseded.sid = sid THEN NoneSuperseded ELSE superseded
    /\ rp' = Response("/logout", sid, NoQuery, 302, "redirect to /", 0, NoEntity)
    /\ UNCHANGED <<config, idpVars>>

\* The relying party as it starts: discovery under way, no session, no
\* request handled.
InitRelyingParty ==
    /\ config = FALSE
    /\ session = [sid \in Sessions |-> NoSession]
    /\ rp = Response("none", "none", NoQuery, 0, "none", 0, NoEntity)
    /\ superseded = NoneSuperseded

\* ------------------------------------------------------------ specifications
\* After startServer has awaited initializeAdapter and the provider library
\* has asked the factory for the adapters in use, every table empty.
InitWith(adapterSets) ==
    /\ InitRelyingParty
    /\ connection = TRUE
    /\ adapters \in adapterSets
    /\ store = [m \in Models |-> {}]
    /\ last = Call("none", "none", Null, Null, NoEntity, FALSE, NoEntity, FALSE)
    /\ written = [m \in Models |-> [id \in Ids |-> NoEntity]]
    /\ deadline = [m \in Models |-> [id \in Ids |-> {}]]
    /\ now = 0
    /\ pending = {}
    /\ spent = {}

\* One adapter, of any model: a repository reads and writes its own table
\* only, so the adapters of different models do not act on each other.
Init == InitWith({{m} : m \in Models})

Next ==
    \/ \E m \in adapters, id \in Ids : \E p \in Payloads(m) : Upsert(m, id, p, {})
    \/ \E m \in adapters, id \in Ids : Find(m, id)
    \/ \E m \in adapters, id \in Ids : FindByUid(m, id)
    \/ \E m \in adapters, u \in Vals : FindByUserCode(m, u)
    \/ \E m \in adapters, id \in Ids, u \in Vals : FindByUidAndUserCode(m, id, u)
    \/ \E m \in adapters, id \in Ids : Destroy(m, id)
    \/ \E m \in adapters, id \in Ids : Consume(m, id)
    \/ \E m \in adapters, g \in Ids : DestroyByGrantId(m, g)
    \/ \E m \in adapters, g \in Ids : RevokeByGrantId(m, g)

\* Every adapter call is awaited before the next one is issued.  upsert
\* does not read expiresIn (SpecTTL passes it), so the calls pass none.
Spec == Init /\ [][Next]_vars

\* The same calls, upsert also with a TTL, while time passes.
NextTTL ==
    \/ Next
    \/ \E m \in adapters, id \in Ids : \E p \in Payloads(m), e \in ExpiresIn \ {{}} :
          Upsert(m, id, p, e)
    \/ Tick

SpecTTL == Init /\ [][NextTTL]_vars

\* The Grant adapter beside the adapter of one of the token kinds.
InitGrant == InitWith({{"Grant", t} : t \in TokenModels})

SpecGrant == InitGrant /\ [][Next]_vars

\* Calls issued by requests in flight at once, on the authorization-code
\* adapter: an upsert may be suspended at its await while other calls run.
InitCode == InitWith({{"Code"}})

NextAsync ==
    \/ \E m \in adapters, id \in Ids : \E p \in Payloads(m) : UpsertBegin(m, id, p)
    \/ \E call \in pending : UpsertFinish(call)
    \/ \E m \in adapters, id \in Ids : Find(m, id)
    \/ \E m \in adapters, id \in Ids : Destroy(m, id)
    \/ \E m \in adapters, id \in Ids : Consume(m, id)
    \/ \E m \in adapters, g \in Ids : DestroyByGrantId(m, g)
    \/ \E m \in adapters, g \in Ids : RevokeByGrantId(m, g)

SpecAsync == InitCode /\ [][NextAsync]_vars

\* The provider's start: initializeAdapter, the factory asked for adapters by
\* the provider library's kind names and by the schemas' names, and the
\* adapters' operations on one key.
InitFactory ==
    /\ InitRelyingParty
    /\ connection = FALSE
    /\ adapters = {}
    /\ store = [m \in Models |-> {}]
    /\ last = Call("none", "none", Null, Null, NoEntity, FALSE, NoEntity, FALSE)
    /\ written = [m \in Models |-> [id \in Ids |-> NoEntity]]
    /\ deadline = [m \in Models |-> [id \in Ids |-> {}]]
    /\ now = 0
    /\ pending = {}
    /\ spent = {}

NextFactory ==
    \/ InitializeAdapter
    \/ \E name \in KindNames \cup Models \cup OtherNames : TypeormAdapter(name)
    \/ \E m \in adapters : Upsert(m, 1, KindPayload(m), {})
    \/ \E m \in adapters : Find(m, 1)
    \/ \E m \in adapters : FindByUid(m, 1)
    \/ \E m \in adapters : FindByUserCode(m, 1)
    \/ \E m \in adapters : FindByUidAndUserCode(m, 1, 1)
    \/ \E m \in adapters : Destroy(m, 1)
    \/ \E m \in adapters : Consume(m, 1)
    \/ \E m \in adapters : DestroyByGrantId(m, 1)
    \/ \E m \in adapters : RevokeByGrantId(m, 1)

SpecFactory == InitFactory /\ [][NextFactory]_vars

\* The calls of Spec against a backend that may fail in any repository call.
NextBackend ==
    \/ Next
    \/ \E m \in adapters, id \in Ids, k \in 1..2 :
          BackendFails("upsert", m, id, Null, PartPayload(m), k)
    \/ \E m \in adapters, id \in Ids, op \in Lookups :
          BackendFails(op, m, id, IF op \in {"find", "findByUid"} THEN Null ELSE 1, NoEntity, 1)
    \/ \E m \in adapters, id \in Ids, op \in Deletions :
          BackendFails(op, m, id, Null, NoEntity, 1)

SpecBackend == Init /\ [][NextBackend]_vars

\* The relying party's requests, each handled before the next arrives.
InitRP == InitWith({{}})

NextRP ==
    \/ Discover
    \/ \E sid \in Sessions : Home(sid)
    \/ \E sid \in Sessions, v \in Vals, s \in Vals : Login(sid, v, s)
    \/ \E sid \in Sessions, q \in Queries, a \in TokenAnswers : Callback(sid, q, a)
    \/ \E sid \in Sessions, ok \in BOOLEAN : Profile(sid, ok)
    \/ \E sid \in Sessions : Logout(sid)

SpecRP == InitRP /\ [][NextRP]_vars

\* ------------------------------------------------------------ claims
NotFound == {NoEntity}

\* The call that completed last is op on the adapter bound to m.
Did(op, m) == last.op = op /\ last.model = m

\* C1: on the authorization-code adapter, once consume(c) has returned
\* find(c) returns not-found, and a consume(c) of a code that is not stored
\* (a second consume) returns normally and leaves the store as it was.
C1_ConsumeRemovesCode ==
    [][(last'.op = "consume" /\ last'.model = "Code") =>
          /\ ~last'.threw
          /\ (find("Code", last.id))' = NotFound
          /\ (~Present(store["Code"], "Code", last'.id) => store' = store)]_vars

\* A stored code has just been consumed, another code still being stored.
C1_Witness ==
    /\ Did("consume", "Code")
    /\ last.changed
    /\ store["Code"] # {}

\* C2: in every interleaving of calls on a code, a code that a completed
\* consume has removed, and for which no upsert was started since, is not
\* found.
C2_NoRecordAfterConsume == \A c \in spent : find("Code", c) = NotFound

\* The grant reference the caller wrote for the token stored under id.
GrantOf(m, id) ==
    IF GrantRef \in DOMAIN written[m][id] THEN {written[m][id][GrantRef]} ELSE {}

\* C3: on a token adapter, a call of revokeByGrantId(g) ends with every
\* token that was stored with grant reference g gone (find of its key
\* returns not-found), and every token stored with another grant reference
\* still found.
C3_RevokeRemovesGrantTokens ==
    [][(last'.op = "revokeByGrantId" /\ last'.model \in TokenModels) =>
          \A id \in Ids : \A g \in GrantOf(last'.model, id) :
              IF g = last'.id
              THEN (find(last.model, id))' = NotFound
              ELSE (find(last.model, id))' # NotFound]_vars

\* C4: once destroy(g) or destroyByGrantId(g) of the Grant adapter has
\* returned, no token stored with grant reference g is found.
C4_NoTokenOfDestroyedGrant ==
    ((Did("destroy", "Grant") \/ Did("destroyByGrantId", "Grant")) /\ ~last.threw) =>
        \A t \in TokenModels \cap adapters, id \in Ids :
            last.id \in GrantOf(t, id) => find(t, id) = NotFound

\* C5: a record upserted with a TTL, and not upserted again, is not found
\* once the TTL has elapsed.
C5_ExpiredNotFound ==
    \A m \in adapters, id \in Ids :
        \A t \in deadline[m][id] : now > t => find(m, id) = NotFound

\* The entity e holds every field of payload p with p's value.
Holds(e, p) == \A f \in DOMAIN p : f \in DOMAIN e /\ e[f] = p[f]

\* C6: for every kind, once upsert(id, payload) has returned, find(id)
\* returns an entity holding every field of payload with payload's value,
\* and upsert returned such an entity.
C6_FindReturnsPayload ==
    (last.op = "upsert" /\ ~last.threw) =>
        /\ Holds(last.entity, last.payload)
        /\ \A e \in find(last.model, last.id) : Holds(e, last.payload)

\* C7: an upsert(id, p2) that returns, on a key that earlier upserts wrote,
\* leaves a stored entity holding p2's value for every field of p2, and the
\* value written before for every field that p2 does not mention.
C7_UpsertMergesAdditively ==
    [][(last'.op = "upsert" /\ ~last'.threw /\ written[last'.model][last'.id] # NoEntity) =>
          \A e \in (find(last.model, last.id))' :
              Holds(e, overlay(written[last'.model][last'.id], last'.payload))]_vars

\* The record the DeviceCode upsert that completed last has stored: the
\* results r of a lookup are that record when they carry its device_code
\* and hold every field the upsert returned.
IsUpserted(r) ==
    /\ r # NoEntity
    /\ r["device_code"] = last.id
    /\ Holds(r, last.entity)

UpsertedDeviceCode ==
    /\ Did("upsert", "DeviceCode")
    /\ ~last.threw
    /\ "user_code" \in DOMAIN last.entity

\* Another stored DeviceCode record carries the user_code u.
SharedUserCode(u) ==
    \E r \in store["DeviceCode"] : r["user_code"] = u /\ r["device_code"] # last.id

\* C8 as claimed: after a DeviceCode record is upserted with device_code D
\* and user_code U, each of find(D), findByUserCode(U) and
\* findByUidAndUserCode(D, U) returns that record.
C8_Original ==
    UpsertedDeviceCode =>
        LET D == last.id
            U == last.entity["user_code"]
        IN /\ \A r \in find("DeviceCode", D) : IsUpserted(r)
           /\ \A r \in findByUserCode("DeviceCode", U) : IsUpserted(r)
           /\ \A r \in findByUidAndUserCode("DeviceCode", D, U) : IsUpserted(r)

\* C8 as amended: find(D) and findByUidAndUserCode(D, U) return that
\* record; findByUserCode(U) returns a record with user_code U, and returns
\* that record when no other stored record has user_code U.
C8_DeviceCodeLookups ==
    UpsertedDeviceCode =>
        LET D == last.id
            U == last.entity["user_code"]
        IN /\ \A r \in find("DeviceCode", D) : IsUpserted(r)
           /\ \A r \in findByUidAndUserCode("DeviceCode", D, U) : IsUpserted(r)
           /\ \A r \in findByUserCode("DeviceCode", U) :
                 /\ r # NoEntity
                 /\ r["user_code"] = U
                 /\ (~SharedUserCode(U) => IsUpserted(r))

\* A DeviceCode record has just been upserted beside a record with another
\* user_code.
C8_Witness ==
    /\ UpsertedDeviceCode
    /\ ~SharedUserCode(last.entity["user_code"])
    /\ Cardinality(store["DeviceCode"]) > 1

\* C9: once destroy(D) of the DeviceCode adapter has returned, no lookup
\* returns a record stored under device_code D.
C9_DestroyedDeviceCodeGone ==
    Did("destroy", "DeviceCode") =>
        /\ ~last.threw
        /\ find("DeviceCode", last.id) = NotFound
        /\ \A u \in Vals :
              /\ findByUidAndUserCode("DeviceCode", last.id, u) = NotFound
              /\ \A r \in findByUserCode("DeviceCode", u) :
                    r = NoEntity \/ r["device_code"] # last.id

\* C10: for Interaction, Session, the authorization code, Grant, AccessToken
\* and RefreshToken, destroy(id) ends with find(id) not-found, and for an id
\* that is not stored it returns normally and leaves the store as it was.
C10_DestroyRemovesRecord ==
    [][(last'.op = "destroy" /\ last'.model \in DestroyModels) =>
          /\ (find(last.model, last.id))' = NotFound
          /\ (~Present(store[last'.model], last'.model, last'.id) =>
                ~last'.threw /\ store' = store)]_vars

\* C11: on the Grant adapter, once destroyByGrantId(g) has returned, find(g)
\* returns not-found and every Grant record with another id is stored as it
\* was.
C11_DestroyByGrantIdRemovesGrant ==
    [][(last'.op = "destroyByGrantId" /\ last'.model = "Grant") =>
          /\ ~last'.threw
          /\ (find("Grant", last.id))' = NotFound
          /\ store'["Grant"] = {r \in store["Grant"] : r["id"] # last'.id}]_vars

\* A destroyByGrantId that removed a grant and left another one stored.
C11_Witness ==
    Did("destroyByGrantId", "Grant") /\ last.changed /\ store["Grant"] # {}

\* C12: with the connection established, the factory returns an adapter for
\* each of the eight kind names of the data model, and upsert and find of
\* that adapter do not end in the 'Unknown model' error.
C12_FactoryAcceptsEveryKind ==
    last.model \in KindNames =>
        /\ (last.op = "typeormAdapter" /\ connection) => ~last.threw
        /\ (last.op \in {"upsert", "find"}) => ~(last.threw /\ last.model \notin Models)

\* C13: every operation of an adapter bound to a name that is none of the
\* recognized kinds ends in an error; none returns normally.
C13_UnknownKindIsAnError ==
    (last.op \in AdapterOps /\ last.model \notin KindNames \cup Models) => last.threw

\* C14: findByUid(uid) of the Session and Interaction adapters returns the
\* stored record with that uid, or not-found when there is none; the adapter
\* of every other kind returns not-found, and none of them throws.
C14_FindByUid ==
    last.op = "findByUid" =>
        /\ ~last.threw
        /\ IF last.model \in {"Session", "Interaction"}
           THEN IF \E r \in store[last.model] : r["uid"] = last.id
                THEN last.entity \in store[last.model] /\ last.entity["uid"] = last.id
                ELSE last.entity = NoEntity
           ELSE last.entity = NoEntity

\* findByUid found a stored interaction.
C14_Witness ==
    Did("findByUid", "Interaction") /\ last.entity # NoEntity

\* C15: findByUidAndUserCode(uid, userCode) returns a record only when one
\* stored record has device_code = uid and user_code = userCode, and then
\* that record; otherwise it returns not-found.
C15_FindByUidAndUserCode ==
    Did("findByUidAndUserCode", "DeviceCode") =>
        LET both == {r \in store["DeviceCode"] :
                        r["device_code"] = last.id /\ r["user_code"] = last.arg}
        IN /\ ~last.threw
           /\ IF both = {} THEN last.entity = NoEntity ELSE last.entity \in both

\* One stored record has the device code and another one the user code: the
\* lookup returned not-found.
C15_Witness ==
    /\ Did("findByUidAndUserCode", "DeviceCode")
    /\ last.entity = NoEntity
    /\ \E r \in store["DeviceCode"] : r["device_code"] = last.id
    /\ \E r \in store["DeviceCode"] : r["user_code"] = last.arg

\* The two ways a request to /callback ends.
Authenticated(r) == r.route = "/callback" /\ r.body = "redirect to /"

Failed(r) ==
    /\ r.route = "/callback"
    /\ r.body \in {"Callback error", "OIDC configuration not yet loaded."}

\* C16: a callback whose state differs from the state stored in its session
\* ends failed, makes no request to the token endpoint and leaves the
\* session's tokenSet as it was.
C16_StateMismatchFails ==
    [][(/\ rp'.route = "/callback"
        /\ session[rp'.sid].state # {}
        /\ rp'.query.state # session[rp'.sid].state) =>
          /\ Failed(rp')
          /\ rp'.requests = 0
          /\ session'[rp'.sid].tokenSet = session[rp'.sid].tokenSet]_vars

\* A redirect with a code and another state than the stored one was refused
\* after discovery.
C16_Witness ==
    /\ rp.route = "/callback"
    /\ rp.status = 500
    /\ rp.query.kind = "code"
    /\ rp.query.state # {}
    /\ session[rp.sid].state # {}
    /\ rp.query.state # session[rp.sid].state

NotMeaningful(c) ==
    \/ c.op = "consume" /\ c.model # "Code"
    \/ c.op = "destroyByGrantId" /\ c.model # "Grant"
    \/ c.op = "revokeByGrantId" /\ c.model \notin TokenModels
    \/ c.op = "destroy" /\ c.model = "Client"
    \/ c.op \in {"findByUserCode", "findByUidAndUserCode"} /\ c.model # "DeviceCode"

\* C18: an operation that is not meaningful for the adapter's kind returns
\* normally, with the neutral result, and leaves every stored record of
\* every kind as it was.
C18_NotMeaningfulIsNoOp ==
    [][(NotMeaningful(last))' =>
          /\ ~last'.threw
          /\ last'.entity = NoEntity
          /\ store' = store]_vars

\* revokeByGrantId on the Grant adapter, a grant being stored.
C18_Witness ==
    Did("revokeByGrantId", "Grant") /\ store["Grant"] # {}

\* upsert(id, payload) run alone, start to end, on a table.
upsertOn(m, table, id, payload) ==
    LET found == CHOOSE e \in findOne(table, Where(PrimaryKey(m), id)) : TRUE
        entity0 == IF found = NoEntity THEN create(Where(PrimaryKey(m), id)) ELSE found
    IN save(m, table, merge(m, entity0, payload)).table

\* C19: two upsert calls for one id that overlap leave the entity that
\* running them one after the other, in one of the two orders, leaves.  The
\* step is the save of call b, the call that returned before it is the other
\* upsert of the same id, and both had looked up the same entity.
C19_ConcurrentUpsertsSerialize ==
    [][\A b \in pending :
          (/\ pending' = pending \ {b}
           /\ last.op = "upsert" /\ ~last.threw
           /\ last.model = b.model /\ last.id = b.id
           /\ last.entity = merge(b.model, b.entity, last.payload)) =>
              LET m == b.model
                  before == IF DOMAIN b.entity = Columns(m) THEN {b.entity} ELSE {}
                  ab == upsertOn(m, upsertOn(m, before, b.id, last.payload), b.id, b.payload)
                  ba == upsertOn(m, upsertOn(m, before, b.id, b.payload), b.id, last.payload)
              IN {r \in store'[m] : r[PrimaryKey(m)] = b.id} \in {ab, ba}]_vars

\* C20: upsert, destroy and consume on one primary key leave the record
\* stored under every other key of the kind as it was.
C20_DifferentKeysIndependent ==
    [][\A m \in Models, b \in Ids :
          (/\ last'.op \in {"upsert", "destroy", "consume"}
           /\ last'.model = m
           /\ last'.id # b) => (find(m, b))' = find(m, b)]_vars

\* C21: the four lookups leave the whole store as it was; the four deleting
\* operations add no record and change no field of a record that remains;
\* and a step after which a table holds a row it did not hold before is an
\* upsert.
C21_PassThrough ==
    [][/\ last'.op \in Lookups => store' = store
       /\ last'.op \in Deletions => \A m \in Models : store'[m] \subseteq store[m]
       /\ (\E m \in Models : ~(store'[m] \subseteq store[m])) => last'.op = "upsert"]_vars

\* A destroy that removed a session and left another one stored.
C21_Witness ==
    Did("destroy", "Session") /\ last.changed /\ store["Session"] # {}

\* C22: an operation in which a repository call failed ends in an error: it
\* returns no result, writes nothing, and has issued the failed call once,
\* after the calls that precede it in the operation and before none.
C22_BackendFailureSurfaces ==
    [][("issued" \in DOMAIN last') =>
          /\ last'.threw
          /\ last'.entity = NoEntity
          /\ store' = store
          /\ \E k \in 1..Len(RepositoryCalls(last'.op, last'.model)) :
                last'.issued = SubSeq(RepositoryCalls(last'.op, last'.model), 1, k)]_vars

\* The save of an upsert failed, a record being stored.
C22_Witness ==
    /\ "issued" \in DOMAIN last
    /\ last.op = "upsert"
    /\ last.issued = <<"findOne", "save">>
    /\ store[last.model] # {}

\* C23: after /login has run with the configuration discovered, the session
\* holds the state and the code_verifier drawn, and the authorization URL of
\* the redirect carries that state, the S256 challenge of that verifier and
\* code_challenge_method 'S256'.
C23_LoginStoresWhatItSends ==
    (rp.route = "/login" /\ rp.status = 302) =>
        /\ session[rp.sid].state = {rp.url.state}
        /\ \E v \in Vals :
              /\ session[rp.sid].code_verifier = {v}
              /\ rp.url.code_challenge = calculatePKCECodeChallenge(v)
        /\ rp.url.code_challenge_method = "S256"

\* A login whose state and verifier are different values.
C23_Witness ==
    /\ rp.route = "/login"
    /\ rp.status = 302
    /\ session[rp.sid].state # session[rp.sid].code_verifier

\* C24: a session holds one state and one code_verifier, those of its latest
\* login, and a callback that carries the state a later login of the session
\* has replaced does not end authenticated.
C24_SupersededStateRefused ==
    \A sid \in Sessions :
        /\ Cardinality(session[sid].state) <= 1
        /\ Cardinality(session[sid].code_verifier) <= 1
        /\ (/\ rp.route = "/callback"
            /\ rp.sid = sid
            /\ superseded.sid = sid
            /\ rp.query.state = superseded.state) => ~Authenticated(rp)

\* With the configuration discovered, a redirect with a code and the state
\* of the login before the latest one was refused.
C24_Witness ==
    /\ rp.route = "/callback"
    /\ rp.status = 500
    /\ rp.query.kind = "code"
    /\ superseded.sid = rp.sid
    /\ rp.query.state = superseded.state

\* C25: a callback, authenticated or failed, leaves the state and the
\* code_verifier of every session as they were; they change in a /login or a
\* /logout of the session alone; and the query of an authenticated callback
\* is one a further callback of the session accepts.
C25_CallbackKeepsLoginValues ==
    [][\A sid \in Sessions :
          /\ rp'.route = "/callback" =>
                /\ session'[sid].state = session[sid].state
                /\ session'[sid].code_verifier = session[sid].code_verifier
          /\ (\/ session'[sid].state # session[sid].state
              \/ session'[sid].code_verifier # session[sid].code_verifier) =>
                (rp'.route \in {"/login", "/logout"} /\ rp'.sid = sid)
          /\ (Authenticated(rp') /\ rp'.sid = sid) =>
                validateAuthResponse(rp'.query, session'[sid].state)]_vars

\* A callback ended authenticated in a session that had logged in, and the
\* session still holds the state of the query.
C25_Witness ==
    /\ Authenticated(rp)
    /\ session[rp.sid].state # {}
    /\ rp.query.state = session[rp.sid].state
    /\ session[rp.sid].code_verifier # {}

\* The parts of C26 that hold: tokenSet appears or changes in an
\* authenticated callback of the session alone, /logout leaves the session
\* without one, / then answers 'not logged in', and /profile then makes no
\* UserInfo request.
TokenSetFromCallbackOnly(sid) ==
    /\ (session'[sid].tokenSet # {} /\ session'[sid].tokenSet # session[sid].tokenSet) =>
          (Authenticated(rp') /\ rp'.sid = sid /\ rp'.requests = 1)
    /\ (rp'.route = "/logout" /\ rp'.sid = sid) => session'[sid].tokenSet = {}
    /\ (rp'.route = "/" /\ rp'.sid = sid /\ session'[sid].tokenSet = {}) =>
          rp'.body = "Welcome"
    /\ (rp'.route = "/profile" /\ rp'.sid = sid /\ session'[sid].tokenSet = {}) =>
          rp'.requests = 0

\* C26 as stated: in a session without tokenSet /profile redirects to /login.
C26_Original ==
    [][\A sid \in Sessions :
          /\ TokenSetFromCallbackOnly(sid)
          /\ (rp'.route = "/profile" /\ rp'.sid = sid /\ session'[sid].tokenSet = {}) =>
                rp'.body = "redirect to /login"]_vars

\* C26, amended: in a session without tokenSet /profile redirects to /login
\* once the configuration is discovered, and answers 'OIDC client not
\* initialized' before.
C26_TokenSetOnlyFromCallback ==
    [][\A sid \in Sessions :
          /\ TokenSetFromCallbackOnly(sid)
          /\ (rp'.route = "/profile" /\ rp'.sid = sid /\ session'[sid].tokenSet = {}) =>
                rp'.body = IF config THEN "redirect to /login"
                           ELSE "OIDC client not initialized"]_vars

\* With the configuration discovered, /profile redirected a session without
\* tokenSet to /login while the other session held one.
C26_Witness ==
    /\ rp.route = "/profile"
    /\ rp.body = "redirect to /login"
    /\ session[rp.sid].tokenSet = {}
    /\ \E sid \in Sessions : session[sid].tokenSet # {}

\* ------------------------------------------------------------ C27
\* C27: typeormAdapter(kind) called while no connection is established (before
\* initializeAdapter, or after it failed) throws and returns no adapter, for
\* every kind, and leaves the store as it was.
C27_FactoryNeedsConnection ==
    [][(last'.op = "typeormAdapter" /\ ~connection') =>
          /\ last'.threw
          /\ last'.entity = NoEntity
          /\ adapters' = adapters
          /\ adapters' = {}
          /\ store' = store
          /\ \A m \in Models : store'[m] = {}]_vars

\* The factory, asked for the adapter of a schema before initializeAdapter
\* was called, threw.
C27_Witness ==
    /\ last.op = "typeormAdapter"
    /\ last.model \in Models
    /\ ~connection
    /\ last.threw
    /\ adapters = {}
====
